---- MODULE Spec2Model ----
(***************************************************************************)
(* A model of the YAML pod validator: validatePod and runValidator of      *)
(* src/yamlvalid.go (the strict variant) and validatePod of                *)
(* src/unnamed/part_001 (the lenient variant).                             *)
(*                                                                         *)
(* Text is a sequence of one-character strings, so that the regular        *)
(* expressions, strings.HasPrefix, strings.Contains and strconv.Atoi are   *)
(* computed character by character.  Str renders such a sequence as a      *)
(* string; a printed line is a string built with \o, as fmt.Printf builds  *)
(* it from its format.                                                     *)
(***************************************************************************)
EXTENDS Integers, Sequences, FiniteSets, TLC

VARIABLES args, file, pc, pod, raw, parseErr, err, i, containerNames, out, exitCode

vars == <<args, file, pc, pod, raw, parseErr, err, i, containerNames, out, exitCode>>

\* ------------------------------------------------------------------ bounds

MaxContainers == 2

MaxPorts == 2

\* -------------------------------------------------------------------- text

Lower == {"a", "b", "c", "d", "e", "f", "g", "h", "i", "j", "k", "l", "m",
          "n", "o", "p", "q", "r", "s", "t", "u", "v", "w", "x", "y", "z"}

Digit == {"0", "1", "2", "3", "4", "5", "6", "7", "8", "9"}

DigitVal(c) ==
    CASE c = "0" -> 0 [] c = "1" -> 1 [] c = "2" -> 2 [] c = "3" -> 3
      [] c = "4" -> 4 [] c = "5" -> 5 [] c = "6" -> 6 [] c = "7" -> 7
      [] c = "8" -> 8 [] c = "9" -> 9

RECURSIVE Str(_)
Str(s) == IF s = <<>> THEN "" ELSE Head(s) \o Str(Tail(s))

AllIn(s, set) == \A k \in 1..Len(s) : s[k] \in set

\* regexp ^[a-z]+(_[a-z]+)*$
isSnakeCase(s) ==
    /\ Len(s) > 0
    /\ AllIn(s, Lower \cup {"_"})
    /\ s[1] # "_"
    /\ s[Len(s)] # "_"
    /\ \A k \in 1..(Len(s) - 1) : ~(s[k] = "_" /\ s[k + 1] = "_")

\* regexp ^[0-9]+(Ki|Mi|Gi)$
isValidMemoryFormat(mem) ==
    /\ Len(mem) >= 3
    /\ mem[Len(mem)] = "i"
    /\ mem[Len(mem) - 1] \in {"K", "M", "G"}
    /\ AllIn(SubSeq(mem, 1, Len(mem) - 2), Digit)

HasPrefix(s, p) == Len(s) >= Len(p) /\ SubSeq(s, 1, Len(p)) = p

Contains(s, c) == \E k \in 1..Len(s) : s[k] = c

RegistryPrefix ==
    <<"r", "e", "g", "i", "s", "t", "r", "y", ".", "b", "i", "g", "b", "r", "o",
      "t", "h", "e", "r", ".", "i", "o", "/">>

isValidImage(image) == HasPrefix(image, RegistryPrefix) /\ Contains(image, ":")

\* strconv.Atoi: an optional sign and at least one decimal digit (the texts of
\* the model are far shorter than an int's range).
AtoiOk(s) ==
    LET body == IF Len(s) > 0 /\ s[1] \in {"+", "-"} THEN Tail(s) ELSE s
    IN  Len(body) > 0 /\ AllIn(body, Digit)

RECURSIVE DecVal(_)
DecVal(s) == IF s = <<>> THEN 0 ELSE 10 * DecVal(SubSeq(s, 1, Len(s) - 1)) + DigitVal(s[Len(s)])

Atoi(s) ==
    IF s[1] = "-" THEN 0 - DecVal(Tail(s))
    ELSE IF s[1] = "+" THEN DecVal(Tail(s)) ELSE DecVal(s)

\* -------------------------------------------------------------- YAML nodes

\* A node of the parsed YAML text: its resolved tag and its text (yaml.v3's
\* Node.Tag and Node.Value).  "absent" stands for a key that is not there; the
\* text of a "map" node is the value of its name key.
Absent == [tag |-> "absent", text |-> <<>>]

StrN(t) == [tag |-> "str", text |-> t]

IntN(t) == [tag |-> "int", text |-> t]

FloatN(t) == [tag |-> "float", text |-> t]

MapN(t) == [tag |-> "map", text |-> t]

\* yaml.v3 decoding a node into a Go string: any scalar gives its text, a null
\* or missing key leaves the zero value, a mapping is a type error.
StringOk(n) == n.tag \in {"absent", "null", "str", "int", "float"}

AsString(n) == IF n.tag \in {"str", "int", "float"} THEN n.text ELSE <<>>

\* yaml.v3 decoding a node into a Go int: an integer scalar gives its value, a
\* null or missing key leaves 0, anything else (a quoted number, a fraction,
\* a mapping) is a type error.
IntOk(n) == n.tag \in {"absent", "null", "int"}

AsInt(n) == IF n.tag = "int" THEN Atoi(n.text) ELSE 0

\* yaml.v3 decoding a node into *PodOS: a mapping fills the struct, a null or
\* missing key leaves nil, a scalar is a type error.
OsOk(n) == n.tag \in {"absent", "null", "map"}

AsOS(n) == [nil |-> n.tag \in {"absent", "null"}, Name |-> IF n.tag = "map" THEN n.text ELSE <<>>]

\* A Go map[string]string is a set of <<key, value>> pairs with distinct keys.
AsMap(r) ==
    [nil |-> ~r.present,
     kv  |-> IF r.present
             THEN {<<k, AsString(r[k])>> : k \in {x \in {"cpu", "memory"} : r[x].tag # "absent"}}
             ELSE {}]

MapOk(r) == r.present => StringOk(r.cpu) /\ StringOk(r.memory)

AsProbe(p) == [nil |-> ~p.present, HTTPGet |-> [Path |-> AsString(p.path), Port |-> AsInt(p.port)]]

ProbeOk(p) == p.present => StringOk(p.path) /\ IntOk(p.port)

AsPort(p) == [ContainerPort |-> AsInt(p.containerPort), Protocol |-> AsString(p.protocol)]

PortOk(p) == IntOk(p.containerPort) /\ StringOk(p.protocol)

AsContainer(c) ==
    [Name           |-> AsString(c.name),
     Image          |-> AsString(c.image),
     Ports          |-> [k \in 1..Len(c.ports) |-> AsPort(c.ports[k])],
     ReadinessProbe |-> AsProbe(c.readinessProbe),
     LivenessProbe  |-> AsProbe(c.livenessProbe),
     Resources      |-> [Requests |-> AsMap(c.requests), Limits |-> AsMap(c.limits)]]

ContainerOk(c) ==
    /\ StringOk(c.name) /\ StringOk(c.image)
    /\ \A k \in 1..Len(c.ports) : PortOk(c.ports[k])
    /\ ProbeOk(c.readinessProbe) /\ ProbeOk(c.livenessProbe)
    /\ MapOk(c.requests) /\ MapOk(c.limits)

\* var pod Pod
ZeroPod ==
    [APIVersion |-> <<>>, Kind |-> <<>>, Metadata |-> [Name |-> <<>>],
     Spec |-> [OS |-> [nil |-> TRUE, Name |-> <<>>], Containers |-> <<>>]]

\* yaml.Unmarshal(content, &pod): the struct it fills ...
DecodePod(d) ==
    [APIVersion |-> AsString(d.apiVersion),
     Kind       |-> AsString(d.kind),
     Metadata   |-> [Name |-> IF d.metadata.present THEN AsString(d.metadata.name) ELSE <<>>],
     Spec       |-> [OS |-> AsOS(d.os),
                     Containers |-> [k \in 1..Len(d.containers) |-> AsContainer(d.containers[k])]]]

\* ... and whether it returns a *yaml.TypeError: some node does not have the
\* shape of its field.
TypeErrors(d) ==
    ~ /\ StringOk(d.apiVersion) /\ StringOk(d.kind)
      /\ (d.metadata.present => StringOk(d.metadata.name))
      /\ OsOk(d.os)
      /\ \A k \in 1..Len(d.containers) : ContainerOk(d.containers[k])

\* err != nil of yaml.Unmarshal(content, &pod): text that is not YAML, or a
\* type error.
UnmarshalFails(f) == ~f.wellFormed \/ TypeErrors(f.doc)

\* ---------------------------------------------------------------- inputs

T_v1 == <<"v", "1">>
T_v2 == <<"v", "2">>
T_Pod == <<"P", "o", "d">>
T_Job == <<"J", "o", "b">>
T_web == <<"w", "e", "b">>
T_linux == <<"l", "i", "n", "u", "x">>
T_windows == <<"w", "i", "n", "d", "o", "w", "s">>
T_macos == <<"m", "a", "c", "o", "s">>
T_web_server == <<"w", "e", "b", "_", "s", "e", "r", "v", "e", "r">>
T_db == <<"d", "b">>
T_Web == <<"W", "e", "b">>
T_image == RegistryPrefix \o <<"a", "p", "p", ":", "1", ".", "0">>
T_notag == RegistryPrefix \o <<"a", "p", "p">>
T_nginx == <<"n", "g", "i", "n", "x", ":", "1">>
T_abc == <<"a", "b", "c">>
T_4 == <<"4">>
T_4_5 == <<"4", ".", "5">>
T_512Ki == <<"5", "1", "2", "K", "i">>
T_512 == <<"5", "1", "2">>
T_1GB == <<"1", "G", "B">>
T_TCP == <<"T", "C", "P">>
T_UDP == <<"U", "D", "P">>
T_SCTP == <<"S", "C", "T", "P">>
T_slash == <<"/">>
T_0 == <<"0">>
T_1 == <<"1">>
T_80 == <<"8", "0">>
T_65535 == <<"6", "5", "5", "3", "5">>
T_65536 == <<"6", "5", "5", "3", "6">>

NoMap == [present |-> FALSE, cpu |-> Absent, memory |-> Absent]

NoProbe == [present |-> FALSE, path |-> Absent, port |-> Absent]

PortN(p, proto) == [containerPort |-> p, protocol |-> proto]

\* The container of the spec's first scenario.
BaseContainer ==
    [name |-> StrN(T_web_server), image |-> StrN(T_image), ports |-> <<>>,
     requests |-> NoMap, limits |-> NoMap,
     readinessProbe |-> NoProbe, livenessProbe |-> NoProbe]

\* A container that breaks a rule of every group.
MessyContainer ==
    [name |-> StrN(T_Web), image |-> StrN(T_nginx),
     ports |-> <<PortN(IntN(T_0), StrN(T_SCTP))>>,
     requests |-> [present |-> TRUE, cpu |-> StrN(T_abc), memory |-> StrN(T_1GB)],
     limits |-> [present |-> TRUE, cpu |-> StrN(T_abc), memory |-> StrN(T_512)],
     readinessProbe |-> [present |-> TRUE, path |-> Absent, port |-> IntN(T_0)],
     livenessProbe |-> [present |-> TRUE, path |-> Absent, port |-> IntN(T_65536)]]

NameVariants == {[BaseContainer EXCEPT !.name = n] : n \in {Absent, StrN(T_Web), StrN(T_db)}}

ImageVariants == {[BaseContainer EXCEPT !.image = n] : n \in {Absent, StrN(T_notag)}}

LimitsVariants ==
    {[BaseContainer EXCEPT !.limits = [present |-> TRUE, cpu |-> c, memory |-> Absent]] :
        c \in {StrN(T_abc), StrN(T_4), IntN(T_4), FloatN(T_4_5)}}
    \cup {[BaseContainer EXCEPT !.limits = [present |-> TRUE, cpu |-> StrN(T_abc), memory |-> StrN(T_512)]],
          [BaseContainer EXCEPT !.limits = [present |-> TRUE, cpu |-> Absent, memory |-> StrN(T_512Ki)]]}

RequestsVariants ==
    {[BaseContainer EXCEPT !.requests = [present |-> TRUE, cpu |-> StrN(T_abc), memory |-> Absent]],
     [BaseContainer EXCEPT !.requests = [present |-> TRUE, cpu |-> IntN(T_4), memory |-> StrN(T_1GB)]]}

ProbeVariants ==
    {[BaseContainer EXCEPT !.readinessProbe = [present |-> TRUE, path |-> Absent, port |-> IntN(T_0)]],
     [BaseContainer EXCEPT !.livenessProbe = [present |-> TRUE, path |-> StrN(T_slash), port |-> IntN(T_65536)]],
     [BaseContainer EXCEPT !.readinessProbe = [present |-> TRUE, path |-> StrN(T_slash), port |-> IntN(T_80)],
                           !.livenessProbe = [present |-> TRUE, path |-> StrN(T_slash), port |-> StrN(T_80)]]}

OnePortVariants ==
    {[BaseContainer EXCEPT !.ports = <<PortN(p, Absent)>>] : p \in {IntN(T_80), StrN(T_80)}}

ContainerVariants ==
    {BaseContainer} \cup NameVariants \cup ImageVariants \cup LimitsVariants
        \cup RequestsVariants \cup ProbeVariants \cup OnePortVariants

\* Sequences of at most n elements of S.
SeqsUpTo(S, n) == UNION {[1..k -> S] : k \in 0..n}

\* The port lists over one value on each side of a boundary.
LowPortLists == SeqsUpTo({PortN(IntN(T_0), Absent), PortN(IntN(T_65535), StrN(T_SCTP))}, MaxPorts)

HighPortLists == SeqsUpTo({PortN(IntN(T_1), StrN(T_TCP)), PortN(IntN(T_65536), StrN(T_UDP))}, MaxPorts)

DocHead(av, k, m, o) == [apiVersion |-> av, kind |-> k, metadata |-> m, os |-> o]

Heads ==
    {DocHead(av, k, m, o) :
        av \in {Absent, StrN(T_v1), StrN(T_v2)},
        k \in {Absent, StrN(T_Pod), StrN(T_Job)},
        m \in {[present |-> FALSE, name |-> Absent], [present |-> TRUE, name |-> Absent],
               [present |-> TRUE, name |-> StrN(<<>>)], [present |-> TRUE, name |-> StrN(T_web)]},
        o \in {Absent, StrN(T_linux), StrN(T_windows), StrN(T_macos), MapN(T_macos)}}

ValidHead == DocHead(StrN(T_v1), StrN(T_Pod), [present |-> TRUE, name |-> StrN(T_web)], Absent)

BadHead == DocHead(Absent, StrN(T_Job), [present |-> TRUE, name |-> Absent], Absent)

Doc(h, cs) ==
    [apiVersion |-> h.apiVersion, kind |-> h.kind, metadata |-> h.metadata, os |-> h.os,
     containers |-> cs]

\* The documents: every head over no, a clean and a messy container; a clean
\* and a bad head over every list of container variants; a clean and a bad
\* head over the containers that differ in their port lists.
Docs ==
    {Doc(h, cs) : h \in Heads, cs \in {<<>>, <<BaseContainer>>, <<MessyContainer>>}}
    \cup {Doc(h, cs) : h \in {ValidHead, BadHead}, cs \in SeqsUpTo(ContainerVariants, MaxContainers)}
    \cup {Doc(ValidHead, [k \in DOMAIN ps |-> [BaseContainer EXCEPT !.ports = ps[k]]]) :
            ps \in SeqsUpTo(LowPortLists, MaxContainers)}
    \cup {Doc(BadHead, [k \in DOMAIN ps |-> [BaseContainer EXCEPT !.ports = ps[k]]]) :
            ps \in SeqsUpTo(HighPortLists, MaxContainers)}

EmptyDoc == Doc(DocHead(Absent, Absent, [present |-> FALSE, name |-> Absent], Absent), <<>>)

\* A file: unreadable, not YAML at all, or a document.
Files ==
    {[readable |-> FALSE, wellFormed |-> FALSE, doc |-> EmptyDoc],
     [readable |-> TRUE, wellFormed |-> FALSE, doc |-> EmptyDoc]}
    \cup {[readable |-> TRUE, wellFormed |-> TRUE, doc |-> d] : d \in Docs}

\* os.Args: the program's name and its arguments, a path being the sequence of
\* its segments.
Program == <<"yamlvalid">>

FilePath == <<"manifests", "pod.yaml">>

RECURSIVE JoinPath(_)
JoinPath(p) == IF Len(p) = 1 THEN p[1] ELSE p[1] \o "/" \o JoinPath(Tail(p))

\* filepath.Base
Base(p) == p[Len(p)]

\* ------------------------------------------------------------- the output

\* A line written to standard output, with the place the writing statement was
\* at: the group of the rule and the loop indices i and j (-1 outside a loop).
Line(text, sec, ci, pj) == [text |-> text, sec |-> sec, i |-> ci, j |-> pj]

When(cond, line) == IF cond THEN <<line>> ELSE <<>>

RECURSIVE Concat(_)
Concat(ss) == IF ss = <<>> THEN <<>> ELSE Head(ss) \o Concat(Tail(ss))

\* The orders in which a range loop may visit a Go map.
Orders(S) ==
    {o \in [1..Cardinality(S) -> S] : \A a, b \in 1..Cardinality(S) : a # b => o[a] # o[b]}

\* fmt.Sprintf("%s: spec.containers[%d]", filePath, i)
Prefix(path, idx) == path \o ": spec.containers[" \o ToString(idx) \o "]"

\* var raw map[string]interface{}; yaml.Unmarshal(content, &raw): its error is
\* dropped, and text that is not YAML leaves the map nil.
NilRaw == [valid |-> FALSE, doc |-> EmptyDoc]

RawUnmarshal(f) == IF f.wellFormed THEN [valid |-> TRUE, doc |-> f.doc] ELSE NilRaw

OutOfRangeOffByOne(p) == p < 0 \/ p > 65536

OutOfRange(p) == p <= 0 \/ p >= 65536

OsLines(path, r) ==
    When(r.valid /\ r.doc.os.tag = "str" /\ r.doc.os.text # T_linux /\ r.doc.os.text # T_windows,
         Line(path \o ":10 os has unsupported value '" \o Str(r.doc.os.text) \o "'", "os", -1, -1))

APIVersionLinesUnguarded(path, p) ==
    When(p.APIVersion = <<>>, Line(path \o ": apiVersion is required", "apiVersion", -1, -1))
    \o When(p.APIVersion # T_v1,
            Line(path \o ": apiVersion has unsupported value '" \o Str(p.APIVersion) \o "'",
                 "apiVersion", -1, -1))

APIVersionLines(path, p) ==
    When(p.APIVersion = <<>>, Line(path \o ": apiVersion is required", "apiVersion", -1, -1))
    \o When(p.APIVersion # <<>> /\ p.APIVersion # T_v1,
            Line(path \o ": apiVersion has unsupported value '" \o Str(p.APIVersion) \o "'",
                 "apiVersion", -1, -1))

KindLines(path, p) ==
    When(p.Kind = <<>>, Line(path \o ": kind is required", "kind", -1, -1))
    \o When(p.Kind # <<>> /\ p.Kind # T_Pod,
            Line(path \o ": kind has unsupported value '" \o Str(p.Kind) \o "'", "kind", -1, -1))

MetadataLines(path, p) ==
    When(p.Metadata.Name = <<>>, Line(path \o ":4 name is required", "metadata", -1, -1))

ContainersLines(path, p) ==
    When(Len(p.Spec.Containers) = 0, Line(path \o ": spec.containers is required", "containers", -1, -1))

NameLinesElseIf(path, idx, c, names) ==
    IF c.Name = <<>>
    THEN <<Line(path \o ":12 name is required", "name", idx, -1)>>
    ELSE IF ~isSnakeCase(c.Name)
    THEN <<Line(Prefix(path, idx) \o ".name has invalid format '" \o Str(c.Name) \o "'",
                "name", idx, -1)>>
    ELSE When(c.Name \in names,
              Line(Prefix(path, idx) \o ".name duplicate container name '" \o Str(c.Name) \o "'",
                   "name", idx, -1))

NameLines(path, idx, c, names) ==
    IF c.Name = <<>>
    THEN <<Line(path \o ":12 name is required", "name", idx, -1)>>
    ELSE When(~isSnakeCase(c.Name),
              Line(Prefix(path, idx) \o ".name has invalid format '" \o Str(c.Name) \o "'",
                   "name", idx, -1))
         \o When(c.Name \in names,
                 Line(Prefix(path, idx) \o ".name duplicate container name '" \o Str(c.Name) \o "'",
                      "name", idx, -1))

NamesAfter(c, names) == IF c.Name = <<>> THEN names ELSE names \cup {c.Name}

ImageLines(path, idx, c) ==
    IF c.Image = <<>>
    THEN <<Line(Prefix(path, idx) \o ".image is required", "image", idx, -1)>>
    ELSE When(~isValidImage(c.Image),
              Line(Prefix(path, idx) \o ".image has invalid format '" \o Str(c.Image) \o "'",
                   "image", idx, -1))

RequestsEntryLines(path, idx, kv) ==
    When(kv[1] = "memory" /\ ~isValidMemoryFormat(kv[2]),
         Line(Prefix(path, idx) \o ".resources.requests.memory has invalid format '"
                \o Str(kv[2]) \o "'", "requests", idx, -1))

RequestsLines(path, idx, c, ord) ==
    Concat([k \in 1..Len(ord) |-> RequestsEntryLines(path, idx, ord[k])])

LimitsEntryLines(path, idx, kv) ==
    When(kv[1] = "memory" /\ ~isValidMemoryFormat(kv[2]),
         Line(Prefix(path, idx) \o ".resources.limits.memory has invalid format '"
                \o Str(kv[2]) \o "'", "limits", idx, -1))
    \o When(kv[1] = "cpu" /\ ~AtoiOk(kv[2]), Line(path \o ":30 cpu must be int", "limits", idx, -1))

LimitsLines(path, idx, c, ord) ==
    Concat([k \in 1..Len(ord) |-> LimitsEntryLines(path, idx, ord[k])])

PortLines(path, idx, j, port) ==
    When(OutOfRange(port.ContainerPort),
         Line(Prefix(path, idx) \o ".ports[" \o ToString(j) \o "]" \o ".containerPort value out of range",
              "port", idx, j))
    \o When(port.Protocol # <<>> /\ port.Protocol # T_TCP /\ port.Protocol # T_UDP,
            Line(Prefix(path, idx) \o ".ports[" \o ToString(j) \o "]" \o ".protocol has unsupported value '"
                   \o Str(port.Protocol) \o "'", "port", idx, j))

PortsLinesReversed(path, idx, c) ==
    Concat([k \in 1..Len(c.Ports) |->
              PortLines(path, idx, Len(c.Ports) - k, c.Ports[Len(c.Ports) - k + 1])])

PortsLines(path, idx, c) ==
    Concat([k \in 1..Len(c.Ports) |-> PortLines(path, idx, k - 1, c.Ports[k])])

ProbeLines(path, idx, which, probe) ==
    IF probe.nil THEN <<>>
    ELSE When(probe.HTTPGet.Path = <<>>,
              Line(Prefix(path, idx) \o "." \o which \o ".httpGet.path is required", which, idx, -1))
         \o When(OutOfRange(probe.HTTPGet.Port),
                 Line(Prefix(path, idx) \o "." \o which \o ".httpGet.port value out of range",
                      which, idx, -1))

\* One turn of the loop over pod.Spec.Containers.
ContainerLines(path, idx, c, names, reqOrd, limOrd) ==
    NameLines(path, idx, c, names)
    \o ImageLines(path, idx, c)
    \o RequestsLines(path, idx, c, reqOrd)
    \o LimitsLines(path, idx, c, limOrd)
    \o PortsLines(path, idx, c)
    \o ProbeLines(path, idx, "readinessProbe", c.ReadinessProbe)
    \o ProbeLines(path, idx, "livenessProbe", c.LivenessProbe)

\* ------------------------------------------------- src/yamlvalid.go, strict

\* os.Args[1]
filePath == IF Len(args) >= 2 THEN JoinPath(args[2]) ELSE ""

Init ==
    /\ \/ args = <<Program, FilePath>> /\ file \in Files
       \/ args \in {<<Program>>, <<Program, FilePath, FilePath>>}
            /\ file = [readable |-> FALSE, wellFormed |-> FALSE, doc |-> EmptyDoc]
    /\ pc = "main"
    /\ pod = ZeroPod
    /\ raw = NilRaw
    /\ parseErr = FALSE
    /\ err = "none"
    /\ i = 0
    /\ containerNames = {}
    /\ out = <<>>
    /\ exitCode = -1

\* runValidator up to its call of validatePod.
RunValidatorStart ==
    /\ pc = "main"
    /\ IF Len(args) # 2
       THEN /\ out' = Append(out, Line("Usage: yamlvalid <path-to-yaml-file>", "usage", -1, -1))
            /\ exitCode' = 1
            /\ pc' = "exited"
       ELSE /\ pc' = "read"
            /\ UNCHANGED <<out, exitCode>>
    /\ UNCHANGED <<args, file, pod, raw, parseErr, err, i, containerNames>>

ReadFile ==
    /\ pc = "read"
    /\ IF ~file.readable
       THEN err' = "cannot read file" /\ pc' = "returned"
       ELSE pc' = "parse" /\ UNCHANGED err
    /\ UNCHANGED <<args, file, pod, raw, parseErr, i, containerNames, out, exitCode>>

UnmarshalKeepsGoing ==
    /\ pc = "parse"
    /\ parseErr' = UnmarshalFails(file)
    /\ err' = IF UnmarshalFails(file) THEN "invalid YAML format" ELSE err
    /\ pod' = IF file.wellFormed THEN DecodePod(file.doc) ELSE pod
    /\ pc' = "os"
    /\ UNCHANGED <<args, file, raw, i, containerNames, out, exitCode>>

Unmarshal ==
    /\ pc = "parse"
    /\ parseErr' = UnmarshalFails(file)
    /\ IF UnmarshalFails(file)
       THEN err' = "invalid YAML format" /\ pc' = "returned" /\ UNCHANGED pod
       ELSE pod' = DecodePod(file.doc) /\ pc' = "os" /\ UNCHANGED err
    /\ UNCHANGED <<args, file, raw, i, containerNames, out, exitCode>>

CheckOS ==
    /\ pc = "os"
    /\ raw' = RawUnmarshal(file)
    /\ out' = out \o OsLines(filePath, RawUnmarshal(file))
    /\ pc' = "top"
    /\ UNCHANGED <<args, file, pod, parseErr, err, i, containerNames, exitCode>>

CheckTopLevel ==
    /\ pc = "top"
    /\ out' = out \o APIVersionLines(filePath, pod) \o KindLines(filePath, pod)
    /\ pc' = "metadata"
    /\ UNCHANGED <<args, file, pod, raw, parseErr, err, i, containerNames, exitCode>>

CheckMetadata ==
    /\ pc = "metadata"
    /\ out' = out \o MetadataLines(filePath, pod)
    /\ pc' = "containers"
    /\ UNCHANGED <<args, file, pod, raw, parseErr, err, i, containerNames, exitCode>>

CheckContainers ==
    /\ pc = "containers"
    /\ out' = out \o ContainersLines(filePath, pod)
    /\ containerNames' = {}
    /\ i' = 0
    /\ pc' = "loop"
    /\ UNCHANGED <<args, file, pod, raw, parseErr, err, exitCode>>

ValidateContainer ==
    /\ pc = "loop"
    /\ i < Len(pod.Spec.Containers)
    /\ LET container == pod.Spec.Containers[i + 1]
       IN  /\ \E reqOrd \in Orders(container.Resources.Requests.kv) :
              \E limOrd \in Orders(container.Resources.Limits.kv) :
                 out' = out \o ContainerLines(filePath, i, container, containerNames, reqOrd, limOrd)
           /\ containerNames' = NamesAfter(container, containerNames)
    /\ i' = i + 1
    /\ UNCHANGED <<args, file, pc, pod, raw, parseErr, err, exitCode>>

Return ==
    /\ pc = "loop"
    /\ i >= Len(pod.Spec.Containers)
    /\ err' = "nil"
    /\ pc' = "returned"
    /\ UNCHANGED <<args, file, pod, raw, parseErr, i, containerNames, out, exitCode>>

\* runValidator after validatePod has returned.
RunValidatorEnd ==
    /\ pc = "returned"
    /\ IF err # "nil"
       THEN /\ out' = Append(out, Line("Error: " \o err, "error", -1, -1))
            /\ exitCode' = 1
       ELSE /\ exitCode' = 0
            /\ UNCHANGED out
    /\ pc' = "exited"
    /\ UNCHANGED <<args, file, pod, raw, parseErr, err, i, containerNames>>

Next ==
    \/ RunValidatorStart
    \/ ReadFile
    \/ Unmarshal
    \/ CheckOS
    \/ CheckTopLevel
    \/ CheckMetadata
    \/ CheckContainers
    \/ ValidateContainer
    \/ Return
    \/ RunValidatorEnd

Spec == Init /\ [][Next]_vars

\* ------------------------------------------ src/unnamed/part_001, lenient

\* filepath.Base(filePath)
fileName == IF Len(args) >= 2 THEN Base(args[2]) ELSE ""

\* The checks of the untyped map; each looks at containers[0] only.
RawNameLines(name, r) ==
    IF r.valid /\ r.doc.metadata.present
    THEN IF r.doc.metadata.name.tag # "absent"
         THEN When(r.doc.metadata.name.tag = "str" /\ r.doc.metadata.name.text = <<>>,
                   Line(name \o ":4 name is required", "metadata", -1, -1))
         ELSE <<Line(name \o ":4 name is required", "metadata", -1, -1)>>
    ELSE <<>>

HasFirst(r) == r.valid /\ Len(r.doc.containers) > 0

RawPortLines(name, r) ==
    IF HasFirst(r) /\ Len(r.doc.containers[1].ports) > 0
    THEN LET containerPort == r.doc.containers[1].ports[1].containerPort
         IN  When(containerPort.tag = "int" /\ OutOfRange(Atoi(containerPort.text)),
                  Line(name \o ":15 containerPort value out of range", "port", 0, 0))
    ELSE <<>>

RawProbeLines(name, r, which) ==
    IF HasFirst(r) /\ r.doc.containers[1][which].present
    THEN LET port == r.doc.containers[1][which].port
         IN  When(port.tag = "int" /\ OutOfRange(Atoi(port.text)),
                  Line(name \o ":24 port value out of range", which, 0, -1))
    ELSE <<>>

\* switch v := cpu.(type): a string must pass strconv.Atoi, an int is fine,
\* anything else (a fraction, a null) is reported.
RawCpuLines(name, m, sec) ==
    IF m.present /\ m.cpu.tag # "absent"
    THEN When(IF m.cpu.tag = "str" THEN ~AtoiOk(m.cpu.text) ELSE m.cpu.tag # "int",
              Line(name \o ":27 cpu must be int", sec, 0, -1))
    ELSE <<>>

RawResourcesLines(name, r) ==
    IF HasFirst(r)
    THEN RawCpuLines(name, r.doc.containers[1].limits, "limits")
         \o RawCpuLines(name, r.doc.containers[1].requests, "requests")
    ELSE <<>>

LenientLimitsEntryLines(path, idx, kv) ==
    When(kv[1] = "memory" /\ ~isValidMemoryFormat(kv[2]),
         Line(Prefix(path, idx) \o ".resources.limits.memory has invalid format '"
                \o Str(kv[2]) \o "'", "limits", idx, -1))

LenientPortLines(path, idx, j, port) ==
    When(port.Protocol # <<>> /\ port.Protocol # T_TCP /\ port.Protocol # T_UDP,
         Line(Prefix(path, idx) \o ".ports[" \o ToString(j) \o "]" \o ".protocol has unsupported value '"
                \o Str(port.Protocol) \o "'", "port", idx, j))

LenientContainerLines(path, idx, c, names, reqOrd, limOrd) ==
    (IF c.Name = <<>> THEN <<>> ELSE NameLines(path, idx, c, names))
    \o ImageLines(path, idx, c)
    \o RequestsLines(path, idx, c, reqOrd)
    \o Concat([k \in 1..Len(limOrd) |-> LenientLimitsEntryLines(path, idx, limOrd[k])])
    \o Concat([k \in 1..Len(c.Ports) |-> LenientPortLines(path, idx, k - 1, c.Ports[k])])

LRunValidatorStart ==
    /\ pc = "main"
    /\ IF Len(args) # 2
       THEN /\ out' = Append(out, Line("Usage: yamlvalid <path-to-yaml-file>", "usage", -1, -1))
            /\ exitCode' = 1
            /\ pc' = "exited"
       ELSE /\ pc' = "l_read"
            /\ UNCHANGED <<out, exitCode>>
    /\ UNCHANGED <<args, file, pod, raw, parseErr, err, i, containerNames>>

LReadFile ==
    /\ pc = "l_read"
    /\ IF ~file.readable
       THEN err' = "cannot read file" /\ pc' = "returned"
       ELSE pc' = "l_parse" /\ UNCHANGED err
    /\ UNCHANGED <<args, file, pod, raw, parseErr, i, containerNames, out, exitCode>>

\* Both parses; neither error stops the run here.
LUnmarshal ==
    /\ pc = "l_parse"
    /\ parseErr' = UnmarshalFails(file)
    /\ pod' = IF file.wellFormed THEN DecodePod(file.doc) ELSE ZeroPod
    /\ raw' = RawUnmarshal(file)
    /\ pc' = "l_raw"
    /\ UNCHANGED <<args, file, err, i, containerNames, out, exitCode>>

\* The checks of rawMap, and then the return on a failed typed parse.
LCheckRaw ==
    /\ pc = "l_raw"
    /\ out' = out \o RawNameLines(fileName, raw) \o OsLines(fileName, raw)
                  \o RawPortLines(fileName, raw)
                  \o RawProbeLines(fileName, raw, "readinessProbe")
                  \o RawProbeLines(fileName, raw, "livenessProbe")
                  \o RawResourcesLines(fileName, raw)
    /\ IF parseErr
       THEN err' = "nil" /\ pc' = "returned"
       ELSE pc' = "l_top" /\ UNCHANGED err
    /\ UNCHANGED <<args, file, pod, raw, parseErr, i, containerNames, exitCode>>

LCheckTopLevel ==
    /\ pc = "l_top"
    /\ out' = out \o APIVersionLines(fileName, pod) \o KindLines(fileName, pod)
                  \o ContainersLines(fileName, pod)
    /\ containerNames' = {}
    /\ i' = 0
    /\ pc' = "l_loop"
    /\ UNCHANGED <<args, file, pod, raw, parseErr, err, exitCode>>

LValidateContainer ==
    /\ pc = "l_loop"
    /\ i < Len(pod.Spec.Containers)
    /\ LET container == pod.Spec.Containers[i + 1]
       IN  /\ \E reqOrd \in Orders(container.Resources.Requests.kv) :
              \E limOrd \in Orders(container.Resources.Limits.kv) :
                 out' = out \o LenientContainerLines(fileName, i, container, containerNames,
                                                     reqOrd, limOrd)
           /\ containerNames' = NamesAfter(container, containerNames)
    /\ i' = i + 1
    /\ UNCHANGED <<args, file, pc, pod, raw, parseErr, err, exitCode>>

LReturn ==
    /\ pc = "l_loop"
    /\ i >= Len(pod.Spec.Containers)
    /\ err' = "nil"
    /\ pc' = "returned"
    /\ UNCHANGED <<args, file, pod, raw, parseErr, i, containerNames, out, exitCode>>

NextLenient ==
    \/ LRunValidatorStart
    \/ LReadFile
    \/ LUnmarshal
    \/ LCheckRaw
    \/ LCheckTopLevel
    \/ LValidateContainer
    \/ LReturn
    \/ RunValidatorEnd

SpecLenient == Init /\ [][NextLenient]_vars

\* ------------------------------------------------------------- the claims

Texts == {out[k].text : k \in 1..Len(out)}

\* The lines that report a rule violation (not the usage or the error line).
Diagnostics == SelectSeq(out, LAMBDA l : l.sec \notin {"usage", "error"})

Fatal == ~file.readable \/ UnmarshalFails(file)

\* validatePod has returned nil: the rules have all run.
Validated == pc = "returned" /\ err = "nil"

Containers == pod.Spec.Containers

\* The rule catalog of the specification, read on the document itself.
CpuIsInt(n) == n.tag = "int" \/ (n.tag = "str" /\ AtoiOk(n.text))

ResourcesOk(m) ==
    m.present => /\ m.memory.tag = "absent" \/ (m.memory.tag = "str" /\ isValidMemoryFormat(m.memory.text))
                 /\ m.cpu.tag = "absent" \/ CpuIsInt(m.cpu)

InRangeNode(n) == n.tag = "int" /\ Atoi(n.text) >= 1 /\ Atoi(n.text) <= 65535

ProbeRulesOk(p) == p.present => p.path.tag = "str" /\ p.path.text # <<>> /\ InRangeNode(p.port)

ContainerRulesOk(c) ==
    /\ c.name.tag = "str" /\ isSnakeCase(c.name.text)
    /\ c.image.tag = "str" /\ isValidImage(c.image.text)
    /\ ResourcesOk(c.requests) /\ ResourcesOk(c.limits)
    /\ \A k \in 1..Len(c.ports) :
          /\ InRangeNode(c.ports[k].containerPort)
          /\ c.ports[k].protocol.tag = "absent"
               \/ (c.ports[k].protocol.tag = "str" /\ c.ports[k].protocol.text \in {T_TCP, T_UDP})
    /\ ProbeRulesOk(c.readinessProbe) /\ ProbeRulesOk(c.livenessProbe)

CatalogOk(d) ==
    /\ d.apiVersion = StrN(T_v1)
    /\ d.kind = StrN(T_Pod)
    /\ d.metadata.present /\ d.metadata.name.tag = "str" /\ d.metadata.name.text # <<>>
    /\ d.os.tag \in {"absent", "map"} \/ (d.os.tag = "str" /\ d.os.text \in {T_linux, T_windows})
    /\ Len(d.containers) > 0
    /\ \A k \in 1..Len(d.containers) : ContainerRulesOk(d.containers[k])
    /\ \A a, b \in 1..Len(d.containers) : a # b => d.containers[a].name # d.containers[b].name

\* C1: when spec.os is a bare string in an otherwise valid document, validatePod
\* returns nil; with "macos" it has printed exactly the one line
\* "<src>: os has unsupported value 'macos'", with "linux" or "windows" nothing.
C1_BareStringOsDoesNotAbort ==
    (/\ pc = "returned" /\ file.readable /\ file.wellFormed
     /\ file.doc.os.tag = "str"
     /\ CatalogOk([file.doc EXCEPT !.os = Absent]))
    => /\ err = "nil"
       /\ file.doc.os.text = T_macos
            => Len(out) = 1 /\ out[1].text = filePath \o ": os has unsupported value 'macos'"
       /\ file.doc.os.text \in {T_linux, T_windows} => out = <<>>

C3_ValidManifestPasses ==
    (pc = "exited" /\ Len(args) = 2 /\ file.readable /\ file.wellFormed /\ CatalogOk(file.doc))
    => out = <<>> /\ exitCode = 0

DuplicateText(idx) ==
    Prefix(filePath, idx) \o ".name duplicate container name '" \o Str(Containers[idx + 1].Name) \o "'"

FormatText(idx) ==
    Prefix(filePath, idx) \o ".name has invalid format '" \o Str(Containers[idx + 1].Name) \o "'"

Repeats(idx) ==
    /\ Containers[idx + 1].Name # <<>>
    /\ \E k \in 0..(idx - 1) : Containers[k + 1].Name = Containers[idx + 1].Name

\* C4: once validatePod has run its rules, container i has the "duplicate
\* container name" line if and only if its name is non-empty and is the name of
\* a container before it; a name that is a repeat and not snake_case has both
\* the "invalid format" and the "duplicate container name" line.
C4_DuplicateNames ==
    Validated =>
        \A idx \in 0..(Len(Containers) - 1) :
            /\ DuplicateText(idx) \in Texts <=> Repeats(idx)
            /\ (Repeats(idx) /\ ~isSnakeCase(Containers[idx + 1].Name))
                 => FormatText(idx) \in Texts /\ DuplicateText(idx) \in Texts

C4_Witness ==
    /\ Validated
    /\ Len(Containers) >= 2
    /\ Containers[1].Name = T_Web /\ Containers[2].Name = T_Web
    /\ FormatText(1) \in Texts /\ DuplicateText(1) \in Texts
    /\ DuplicateText(0) \notin Texts

PortRangeText(idx, j) ==
    filePath \o ": spec.containers[" \o ToString(idx) \o "].ports[" \o ToString(j)
             \o "].containerPort value out of range"

HasPort(idx, j) == idx < Len(Containers) /\ j < Len(Containers[idx + 1].Ports)

PortOf(idx, j) == Containers[idx + 1].Ports[j + 1].ContainerPort

\* C5: once validatePod has run its rules, the line
\* "spec.containers[i].ports[j].containerPort value out of range" is there if
\* and only if port j of container i has a containerPort outside 1..65535.
C5_PortRange ==
    Validated =>
        \A idx \in 0..MaxContainers, j \in 0..MaxPorts :
            PortRangeText(idx, j) \in Texts
                <=> (HasPort(idx, j) /\ ~(PortOf(idx, j) >= 1 /\ PortOf(idx, j) <= 65535))

C5_Witness ==
    /\ Validated
    /\ HasPort(1, 1)
    /\ PortOf(1, 0) = 1 /\ PortOf(1, 1) = 65536
    /\ PortRangeText(1, 1) \in Texts /\ PortRangeText(1, 0) \notin Texts

IsCpuLine(l) == l.text \in {filePath \o ": cpu must be int", filePath \o ":30 cpu must be int"}

CpuLines(idx, sec) == {k \in 1..Len(out) : IsCpuLine(out[k]) /\ out[k].i = idx /\ out[k].sec = sec}

CpuNotInt(m) == m.present /\ m.cpu.tag # "absent" /\ ~CpuIsInt(m.cpu)

\* C6: once validatePod has run its rules, a cpu entry of a container's
\* resources.requests, and one of its resources.limits, has the "cpu must be
\* int" line if and only if its value is not an integer.
C6_CpuMustBeInt ==
    Validated =>
        \A idx \in 0..(Len(Containers) - 1) :
            /\ CpuLines(idx, "limits") # {} <=> CpuNotInt(file.doc.containers[idx + 1].limits)
            /\ CpuLines(idx, "requests") # {} <=> CpuNotInt(file.doc.containers[idx + 1].requests)

\* The values a line may quote: the texts of the documents.
Values ==
    {<<>>, T_v1, T_v2, T_Pod, T_Job, T_web, T_linux, T_windows, T_macos, T_web_server, T_db,
     T_Web, T_image, T_notag, T_nginx, T_abc, T_4, T_4_5, T_512Ki, T_512, T_1GB, T_TCP,
     T_UDP, T_SCTP, T_slash, T_0, T_1, T_80, T_65535, T_65536}

\* The line formats the specification lists.
ListedLines(src) ==
    {src \o ": apiVersion is required", src \o ": kind is required", src \o ": name is required",
     src \o ": spec.containers is required", src \o ": cpu must be int"}
    \cup {src \o ": " \o f \o " has unsupported value '" \o Str(v) \o "'" :
            f \in {"apiVersion", "kind", "os"}, v \in Values}
    \cup {src \o ": spec.containers[" \o ToString(idx) \o "]" \o t :
            idx \in 0..MaxContainers,
            t \in {".name is required", ".image is required",
                   ".readinessProbe.httpGet.path is required",
                   ".readinessProbe.httpGet.port value out of range",
                   ".livenessProbe.httpGet.path is required",
                   ".livenessProbe.httpGet.port value out of range"}}
    \cup {src \o ": spec.containers[" \o ToString(idx) \o "]" \o f \o "'" \o Str(v) \o "'" :
            idx \in 0..MaxContainers, v \in Values,
            f \in {".name has invalid format ", ".name duplicate container name ",
                   ".image has invalid format ", ".resources.requests.memory has invalid format ",
                   ".resources.limits.memory has invalid format "}}
    \cup {src \o ": spec.containers[" \o ToString(idx) \o "].ports[" \o ToString(j) \o "]"
              \o ".containerPort value out of range" : idx \in 0..MaxContainers, j \in 0..MaxPorts}
    \cup {src \o ": spec.containers[" \o ToString(idx) \o "].ports[" \o ToString(j) \o "]"
              \o ".protocol has unsupported value '" \o Str(v) \o "'" :
            idx \in 0..MaxContainers, j \in 0..MaxPorts, v \in Values}

\* C7: every diagnostic line is one of the listed formats; an empty
\* metadata.name gives "<src>: name is required", an empty name of container i
\* gives "<src>: spec.containers[<i>].name is required".
C7_ListedFormats ==
    Validated =>
        /\ \A k \in 1..Len(out) : out[k].text \in ListedLines(filePath)
        /\ pod.Metadata.Name = <<>> => filePath \o ": name is required" \in Texts
        /\ \A idx \in 0..(Len(Containers) - 1) :
              Containers[idx + 1].Name = <<>>
                  => Prefix(filePath, idx) \o ".name is required" \in Texts

About(field) == SelectSeq(out, LAMBDA l : l.sec = field)

RequiredText(field) == filePath \o ": " \o field \o " is required"

HasRequired(field) == \E k \in 1..Len(out) : out[k].text = RequiredText(field)

HasUnsupported(field) ==
    \E k \in 1..Len(out) : out[k].sec = field /\ out[k].text # RequiredText(field)

\* C8: in no state are the "required" and the "unsupported value" line of
\* apiVersion both printed, nor those of kind; and once validatePod has run its
\* rules on a document without an apiVersion, the one line about apiVersion is
\* "apiVersion is required".
C8_RequiredExcludesUnsupported ==
    /\ ~(HasRequired("apiVersion") /\ HasUnsupported("apiVersion"))
    /\ ~(HasRequired("kind") /\ HasUnsupported("kind"))
    /\ (Validated /\ AsString(file.doc.apiVersion) = <<>>)
         => Len(About("apiVersion")) = 1 /\ About("apiVersion")[1].text = RequiredText("apiVersion")
    /\ (Validated /\ AsString(file.doc.apiVersion) # <<>>) => ~HasRequired("apiVersion")

C8_Witness ==
    /\ Validated
    /\ file.doc.apiVersion.tag = "absent"
    /\ file.doc.kind = StrN(T_Job)
    /\ HasRequired("apiVersion") /\ HasUnsupported("kind")

IsRangeLine(l) ==
    /\ l.sec = "port"
    /\ \E idx \in 0..MaxContainers, j \in 0..MaxPorts :
          l.text \in {fileName \o ":15 containerPort value out of range",
                      fileName \o ": spec.containers[" \o ToString(idx) \o "].ports["
                        \o ToString(j) \o "].containerPort value out of range"}

PortsOutOfRange ==
    {<<c, p>> \in (1..MaxContainers) \X (1..MaxPorts) :
        /\ c <= Len(file.doc.containers) /\ p <= Len(file.doc.containers[c].ports)
        /\ file.doc.containers[c].ports[p].containerPort.tag = "int"
        /\ OutOfRange(Atoi(file.doc.containers[c].ports[p].containerPort.text))}

\* C9: in the lenient variant, once validatePod has returned, there are as many
\* out-of-range port lines as the document has containerPorts outside 1..65535.
C9_EveryPortReported ==
    (pc = "returned" /\ file.readable /\ file.wellFormed)
    => Cardinality({k \in 1..Len(out) : IsRangeLine(out[k])}) = Cardinality(PortsOutOfRange)

\* The order of the claim: top level, then metadata, then spec; in spec the
\* containers by index; in a container the ports by index.
Group(l) ==
    IF l.sec \in {"apiVersion", "kind"} THEN 1 ELSE IF l.sec = "metadata" THEN 2 ELSE 3

Before(x, y) ==
    \/ Group(x) < Group(y)
    \/ x.i >= 0 /\ y.i >= 0 /\ x.i < y.i
    \/ x.i >= 0 /\ x.i = y.i /\ x.sec = "port" /\ y.sec = "port" /\ x.j < y.j

\* C10: no diagnostic is printed after one that comes later in document order:
\* apiVersion and kind, then metadata.name, then spec (os, spec.containers);
\* container i before container i+1; within a container port j before port j+1.
C10_DocumentOrder ==
    \A a, b \in 1..Len(Diagnostics) : a < b => ~Before(Diagnostics[b], Diagnostics[a])

C10_Witness ==
    /\ Validated
    /\ \E a, b, c, d, e \in 1..Len(out) :
          /\ a < b /\ b < c /\ c < d /\ d < e
          /\ out[a].sec = "apiVersion" /\ out[b].sec = "metadata"
          /\ out[c].sec = "port" /\ out[c].i = 0 /\ out[c].j = 0
          /\ out[d].sec = "port" /\ out[d].i = 0 /\ out[d].j = 1
          /\ out[e].sec = "port" /\ out[e].i = 1

\* One order of a map, the same whenever it is asked for.
FixedOrder(S) == CHOOSE o \in Orders(S) : TRUE

\* C11: the output is a function of the file and the path: every turn of the
\* container loop appends the same lines whenever it is run on the same
\* container, whatever order the range loops visit resources.requests and
\* resources.limits in.
C11_DeterministicOutput ==
    [][(pc = "loop" /\ i < Len(Containers))
          => out' = out \o ContainerLines(filePath, i, Containers[i + 1], containerNames,
                                          FixedOrder(Containers[i + 1].Resources.Requests.kv),
                                          FixedOrder(Containers[i + 1].Resources.Limits.kv))]_vars

====
